---- MODULE Spec2Model ----
(***************************************************************************)
(* CommandRegistry of Commando (src/unnamed/part_001): registration,       *)
(* re-registration, unregistration and search of commands and groups.      *)
(*                                                                         *)
(* Strings are sequences of one-character strings, so that toLowerCase,    *)
(* String.includes and the template `${groupID}:${memberName}` are         *)
(* computed as the code computes them.                                     *)
(* A Collection (a Map in insertion order) is a sequence of its values;    *)
(* the key of a command is always its name, the key of a group its id.     *)
(***************************************************************************)
EXTENDS Integers, Sequences, FiniteSets, TLC

(* ------------------------------------------------------------------ *)
(* Bounds                                                             *)
(* ------------------------------------------------------------------ *)

\* longest array handed to registerCommands
MaxBatch == 2

\* longest array handed to registerGroups
MaxGroupBatch == 1

(* ------------------------------------------------------------------ *)
(* Strings                                                            *)
(* ------------------------------------------------------------------ *)

LowerChar(ch) ==
    CASE ch = "A" -> "a"
      [] ch = "B" -> "b"
      [] OTHER -> ch

\* String.prototype.toLowerCase
Lower(s) == [i \in 1..Len(s) |-> LowerChar(s[i])]

\* String.prototype.includes
StrIncludes(s, sub) ==
    \E i \in 0..(Len(s) - Len(sub)) : SubSeq(s, i + 1, i + Len(sub)) = sub

\* Array.prototype.includes / some(x => x === v)
ArrIncludes(arr, v) == \E i \in DOMAIN arr : arr[i] = v

(* ------------------------------------------------------------------ *)
(* The objects the caller holds                                       *)
(* ------------------------------------------------------------------ *)

\* Command instances (name, aliases, groupID and memberName are fixed at
\* construction and lower case); the index in the pool is the object identity.
CommandPool == <<
    [name |-> <<"a","b">>, aliases |-> << >>,              groupID |-> <<"a">>, memberName |-> <<"a">>],
    [name |-> <<"b","a">>, aliases |-> << <<"b">> >>,      groupID |-> <<"a">>, memberName |-> <<"b">>],
    [name |-> <<"a","b">>, aliases |-> << <<"b","a">> >>,  groupID |-> <<"a">>, memberName |-> <<"a">>],
    [name |-> <<"a","b">>, aliases |-> << >>,              groupID |-> <<"b">>, memberName |-> <<"a">>],
    [name |-> <<"a","b">>, aliases |-> << >>,              groupID |-> <<"a">>, memberName |-> <<"b">>],
    [name |-> <<"a","b">>, aliases |-> << <<"b">> >>,      groupID |-> <<"b">>, memberName |-> <<"a">>]
>>

Commands == DOMAIN CommandPool

\* the Command instances one program constructs
Scopes == { {1, 2, 3}, {1, 4}, {1, 5}, {2, 5}, {2, 6} }

\* an array element that is no Command instance
Invalid == 0

Name(c) == CommandPool[c].name
Aliases(c) == CommandPool[c].aliases
GroupID(c) == CommandPool[c].groupID
MemberName(c) == CommandPool[c].memberName

\* `${cmd.groupID}:${cmd.memberName}`
QualifiedName(c) == GroupID(c) \o <<":">> \o MemberName(c)

\* [ID, Name] arrays handed to registerGroup(s)
GroupArgs == { << <<"a">>, <<"A">> >>, << <<"b">>, <<"B">> >>, << <<"b">>, <<"A">> >> }

\* search strings handed to find* / resolve*
SearchStrings == { << >>, <<"a">>, <<"b">>, <<"B">>, <<"a","b">>,
                   <<"b","a">>, <<"a",":","b">> }

\* command.group of a command that was never registered
NoGroup == << >>

RECURSIVE SeqsUpTo(_, _)
SeqsUpTo(S, n) ==
    IF n = 0 THEN { << >> }
    ELSE LET shorter == SeqsUpTo(S, n - 1)
         IN  shorter \cup { Append(q, x) : q \in { r \in shorter : Len(r) = n - 1 }, x \in S }

(* ------------------------------------------------------------------ *)
(* State                                                              *)
(* ------------------------------------------------------------------ *)

VARIABLES
    held,       \* the Command instances the program has constructed
    commands,   \* registry.commands: the registered Command objects, in insertion order
    groups,     \* registry.groups: records [id, name, commands], in insertion order
    cmdGroup,   \* command.group of every Command object: a group id, or NoGroup
    emitted,    \* what client.emit was called with during the latest call
    lastCall,   \* the latest call: [op, args, error, result, k]
    before      \* registry.commands and registry.groups when the latest call was made

vars == <<held, commands, groups, cmdGroup, emitted, lastCall, before>>

NoError == "none"

Event(type, subject) == [type |-> type, subject |-> subject]

Call(op, args, error, result, k) ==
    [op |-> op, args |-> args, error |-> error, result |-> result, k |-> k]

Init ==
    /\ held \in Scopes
    /\ commands = << >>
    /\ groups = << >>
    /\ cmdGroup = [c \in Commands |-> NoGroup]
    /\ emitted = << >>
    /\ lastCall = Call("new", << >>, NoError, << >>, 0)
    /\ before = [commands |-> << >>, groups |-> << >>]

(* ------------------------------------------------------------------ *)
(* Collection (discord.js Collection: a Map in insertion order)       *)
(* ------------------------------------------------------------------ *)

\* collection.set(command.name, command): an existing key keeps its place
ColSet(col, c) ==
    IF \E i \in DOMAIN col : Name(col[i]) = Name(c)
    THEN [i \in DOMAIN col |-> IF Name(col[i]) = Name(c) THEN c ELSE col[i]]
    ELSE Append(col, c)

\* collection.delete(name)
ColDelete(col, nm) == SelectSeq(col, LAMBDA x : Name(x) # nm)

\* this.groups.find(grp => grp.id === id): its index in registry.groups, 0 when absent
GroupIndex(grps, id) ==
    IF \E i \in DOMAIN grps : grps[i].id = id
    THEN CHOOSE i \in DOMAIN grps : grps[i].id = id /\ \A j \in 1..(i - 1) : grps[j].id # id
    ELSE 0

\* what a registry method works on: the registry, the events emitted so far and
\* the error thrown (k: the array element that threw)
Registry(cmds, grps, cg, em) ==
    [commands |-> cmds, groups |-> grps, cmdGroup |-> cg, emitted |-> em,
     error |-> NoError, k |-> 0]

Throw(st, err) == [st EXCEPT !.error = err]

(* ------------------------------------------------------------------ *)
(* Search                                                             *)
(* ------------------------------------------------------------------ *)

groupFilterExact(search, grp) ==
    grp.id = search \/ Lower(grp.name) = search

groupFilterInexact(search, grp) ==
    StrIncludes(grp.id, search) \/ StrIncludes(Lower(grp.name), search)

commandFilterExact(search, cmd) ==
    \/ Name(cmd) = search
    \/ ArrIncludes(Aliases(cmd), search)
    \/ QualifiedName(cmd) = search

\* commandFilterInexact that forgets the aliases
commandFilterInexactNoAliases(search, cmd) ==
    \/ StrIncludes(Name(cmd), search)
    \/ QualifiedName(cmd) = search

commandFilterInexact(search, cmd) ==
    \/ StrIncludes(Name(cmd), search)
    \/ QualifiedName(cmd) = search
    \/ \E i \in DOMAIN Aliases(cmd) : StrIncludes(Aliases(cmd)[i], search)

\* findGroups(searchString, exact): the matching groups, in registry order
findGroups(grps, searchString, exact) ==
    IF searchString = << >> THEN grps
    ELSE LET lcSearch == Lower(searchString)
             matchedGroups ==
                 IF exact THEN SelectSeq(grps, LAMBDA g : groupFilterExact(lcSearch, g))
                 ELSE SelectSeq(grps, LAMBDA g : groupFilterInexact(lcSearch, g))
             \* the groups the loop for an exact match would return, in order
             exactMatches ==
                 SelectSeq(matchedGroups, LAMBDA g : Lower(g.name) = lcSearch \/ g.id = lcSearch)
         IN  IF exact THEN matchedGroups
             ELSE IF exactMatches # << >> THEN << exactMatches[1] >>
             ELSE matchedGroups

\* resolveGroup(string): [ok, id]; the Collection findGroups returns for an empty
\* string has no length, so that nothing resolves
resolveGroup(grps, group) ==
    LET found == findGroups(grps, group, TRUE)
    IN  IF group # << >> /\ Len(found) = 1
        THEN [ok |-> TRUE, id |-> found[1].id]
        ELSE [ok |-> FALSE, id |-> NoGroup]

\* findCommands(searchString, exact) without a message
findCommands(cmds, searchString, exact) ==
    IF searchString = << >> THEN cmds
    ELSE LET lcSearch == Lower(searchString)
             matchedCommands ==
                 IF exact THEN SelectSeq(cmds, LAMBDA c : commandFilterExact(lcSearch, c))
                 ELSE SelectSeq(cmds, LAMBDA c : commandFilterInexact(lcSearch, c))
             \* the commands the loop for an exact match would return, in order
             exactMatches ==
                 SelectSeq(matchedCommands,
                           LAMBDA c : Name(c) = lcSearch \/ ArrIncludes(Aliases(c), lcSearch))
         IN  IF exact THEN matchedCommands
             ELSE IF exactMatches # << >> THEN << exactMatches[1] >>
             ELSE matchedCommands

\* resolveCommand(string): [ok, cmd]
resolveCommand(cmds, command) ==
    LET found == findCommands(cmds, command, TRUE)
    IN  IF command # << >> /\ Len(found) = 1
        THEN [ok |-> TRUE, cmd |-> found[1]]
        ELSE [ok |-> FALSE, cmd |-> Invalid]

(* ------------------------------------------------------------------ *)
(* registerGroups                                                     *)
(* ------------------------------------------------------------------ *)

\* new CommandGroup(client, id, name): a group with no commands
NewGroup(id, nm) == [id |-> id, name |-> nm, commands |-> << >>]

\* a registerGroups that throws for an id that is registered
RegisterGroupStepThrowing(st, arg) ==
    LET group == NewGroup(arg[1], arg[2])
        existing == GroupIndex(st.groups, group.id)
    IN  IF existing # 0
        THEN Throw(st, "group is already registered")
        ELSE [st EXCEPT !.groups = Append(@, group),
                        !.emitted = @ \o << Event("groupRegister", group.id),
                                            Event("debug", group.id) >>]

\* a registerGroups that sets the new group object over a registered id
RegisterGroupStepReplacing(st, arg) ==
    LET group == NewGroup(arg[1], arg[2])
        existing == GroupIndex(st.groups, group.id)
    IN  IF existing # 0
        THEN [st EXCEPT !.groups[existing] = group,
                        !.emitted = @ \o << Event("groupRegister", group.id),
                                            Event("debug", group.id) >>]
        ELSE [st EXCEPT !.groups = Append(@, group),
                        !.emitted = @ \o << Event("groupRegister", group.id),
                                            Event("debug", group.id) >>]

\* one turn of the loop of registerGroups, for the array [id, name]
RegisterGroupStep(st, arg) ==
    LET group == NewGroup(arg[1], arg[2])
        existing == GroupIndex(st.groups, group.id)
    IN  IF existing # 0
        THEN [st EXCEPT !.groups[existing].name = group.name,
                        !.emitted = Append(@, Event("debug", group.id))]
        ELSE [st EXCEPT !.groups = Append(@, group),
                        !.emitted = @ \o << Event("groupRegister", group.id),
                                            Event("debug", group.id) >>]

RECURSIVE RegisterGroupsFrom(_, _, _)
RegisterGroupsFrom(st, args, i) ==
    IF i > Len(args) THEN st
    ELSE RegisterGroupsFrom(RegisterGroupStep(st, args[i]), args, i + 1)

(* ------------------------------------------------------------------ *)
(* registerCommands                                                   *)
(* ------------------------------------------------------------------ *)

\* the conflict check of the name that looks at the registered names only
NameConflictNamesOnly(cmds, c) ==
    \E i \in DOMAIN cmds : Name(cmds[i]) = Name(c)

\* this.commands.some(cmd => cmd.name === command.name || cmd.aliases.includes(command.name))
NameConflict(cmds, c) ==
    \E i \in DOMAIN cmds :
        Name(cmds[i]) = Name(c) \/ ArrIncludes(Aliases(cmds[i]), Name(c))

\* some alias of the command is the name or an alias of a registered command
AliasConflict(cmds, c) ==
    \E j \in DOMAIN Aliases(c) : \E i \in DOMAIN cmds :
        Name(cmds[i]) = Aliases(c)[j] \/ ArrIncludes(Aliases(cmds[i]), Aliases(c)[j])

\* group.commands.some(cmd => cmd.memberName === command.memberName)
MemberNameConflict(group, c) ==
    \E i \in DOMAIN group.commands : MemberName(group.commands[i]) = MemberName(c)

\* one turn of the loop of registerCommands, for a Command instance
RegisterCommandStep(st, c) ==
    IF NameConflict(st.commands, c) THEN Throw(st, "name is already registered")
    ELSE IF AliasConflict(st.commands, c) THEN Throw(st, "alias is already registered")
    ELSE LET gi == GroupIndex(st.groups, GroupID(c))
         IN  IF gi = 0 THEN Throw(st, "group is not registered")
             ELSE IF MemberNameConflict(st.groups[gi], c)
                  THEN Throw(st, "member name is already registered")
             ELSE [st EXCEPT !.cmdGroup[c] = st.groups[gi].id,
                             !.groups[gi].commands = ColSet(@, c),
                             !.commands = ColSet(@, c),
                             !.emitted = @ \o << Event("commandRegister", c),
                                                 Event("debug", c) >>]

\* a registerCommands that undoes its registrations when an element throws
RECURSIVE RegisterCommandsRollingBack(_, _, _)
RegisterCommandsRollingBack(st, cmds, i) ==
    IF i > Len(cmds) THEN st
    ELSE IF cmds[i] = Invalid
         THEN RegisterCommandsRollingBack([st EXCEPT !.emitted = Append(@, Event("warn", Invalid))],
                                          cmds, i + 1)
         ELSE LET next == RegisterCommandStep(st, cmds[i])
                  rest == RegisterCommandsRollingBack(next, cmds, i + 1)
              IN  IF next.error # NoError THEN [next EXCEPT !.k = i]
                  ELSE IF rest.error # NoError
                       THEN [st EXCEPT !.error = rest.error, !.k = rest.k]
                       ELSE rest

\* a registerCommands that stops at an element that is no Command
RECURSIVE RegisterCommandsStoppingAtInvalid(_, _, _)
RegisterCommandsStoppingAtInvalid(st, cmds, i) ==
    IF i > Len(cmds) THEN st
    ELSE IF cmds[i] = Invalid
         THEN [st EXCEPT !.emitted = Append(@, Event("warn", Invalid))]
         ELSE LET next == RegisterCommandStep(st, cmds[i])
              IN  IF next.error # NoError THEN [next EXCEPT !.k = i]
                  ELSE RegisterCommandsStoppingAtInvalid(next, cmds, i + 1)

RECURSIVE RegisterCommandsFrom(_, _, _)
RegisterCommandsFrom(st, cmds, i) ==
    IF i > Len(cmds) THEN st
    ELSE IF cmds[i] = Invalid
         THEN RegisterCommandsFrom([st EXCEPT !.emitted = Append(@, Event("warn", Invalid))],
                                   cmds, i + 1)
         ELSE LET next == RegisterCommandStep(st, cmds[i])
              IN  IF next.error # NoError THEN [next EXCEPT !.k = i]
                  ELSE RegisterCommandsFrom(next, cmds, i + 1)

(* ------------------------------------------------------------------ *)
(* reregisterCommand, unregisterCommand                               *)
(* ------------------------------------------------------------------ *)

\* a reregisterCommand that lets the group change
reregisterCommandAnyGroup(st, command, oldCommand) ==
    IF Name(command) # Name(oldCommand) THEN Throw(st, "Command name cannot change.")
    ELSE IF MemberName(command) # MemberName(oldCommand)
         THEN Throw(st, "Command memberName cannot change.")
    ELSE LET r == resolveGroup(st.groups, GroupID(command))
         IN  IF ~r.ok THEN Throw(st, "Unable to resolve group.")
             ELSE LET gi == GroupIndex(st.groups, r.id)
                  IN  [st EXCEPT !.cmdGroup[command] = r.id,
                                 !.groups[gi].commands = ColSet(@, command),
                                 !.commands = ColSet(@, command),
                                 !.emitted = @ \o << Event("commandReregister", <<command, oldCommand>>),
                                                     Event("debug", command) >>]

reregisterCommand(st, command, oldCommand) ==
    IF Name(command) # Name(oldCommand) THEN Throw(st, "Command name cannot change.")
    ELSE IF GroupID(command) # GroupID(oldCommand) THEN Throw(st, "Command group cannot change.")
    ELSE IF MemberName(command) # MemberName(oldCommand)
         THEN Throw(st, "Command memberName cannot change.")
    ELSE LET r == resolveGroup(st.groups, GroupID(command))
         IN  IF ~r.ok THEN Throw(st, "Unable to resolve group.")
             ELSE LET gi == GroupIndex(st.groups, r.id)
                  IN  [st EXCEPT !.cmdGroup[command] = r.id,
                                 !.groups[gi].commands = ColSet(@, command),
                                 !.commands = ColSet(@, command),
                                 !.emitted = @ \o << Event("commandReregister", <<command, oldCommand>>),
                                                     Event("debug", command) >>]

\* command.group is null for a command that was never registered: the delete from
\* registry.commands is done before the TypeError
unregisterCommand(st, command) ==
    LET deleted == [st EXCEPT !.commands = ColDelete(@, Name(command))]
    IN  IF st.cmdGroup[command] = NoGroup THEN Throw(deleted, "TypeError")
        ELSE LET gi == GroupIndex(st.groups, st.cmdGroup[command])
             IN  [deleted EXCEPT !.groups[gi].commands = ColDelete(@, Name(command)),
                                 !.emitted = @ \o << Event("commandUnregister", command),
                                                     Event("debug", command) >>]

(* ------------------------------------------------------------------ *)
(* Calls                                                              *)
(* ------------------------------------------------------------------ *)

Current == Registry(commands, groups, cmdGroup, << >>)

\* the registry after a call, and the record of the call
Return(op, args, st, result) ==
    /\ commands' = st.commands
    /\ groups' = st.groups
    /\ cmdGroup' = st.cmdGroup
    /\ emitted' = st.emitted
    /\ lastCall' = Call(op, args, st.error, result, st.k)
    /\ before' = [commands |-> commands, groups |-> groups]
    /\ UNCHANGED held

\* registerGroups(groups)
RegisterGroups ==
    \E args \in SeqsUpTo(GroupArgs, MaxGroupBatch) :
        Return("registerGroups", args, RegisterGroupsFrom(Current, args, 1), << >>)

\* registerGroup(id, name): registerGroups([[id, name]])
RegisterGroup ==
    \E arg \in GroupArgs :
        Return("registerGroup", << arg >>, RegisterGroupsFrom(Current, << arg >>, 1), << >>)

\* registerCommands(commands)
RegisterCommands ==
    \E cmds \in SeqsUpTo(held \cup {Invalid}, MaxBatch) :
        Return("registerCommands", cmds, RegisterCommandsFrom(Current, cmds, 1), << >>)

\* registerCommand(command): registerCommands([command])
RegisterCommand ==
    \E c \in held \cup {Invalid} :
        Return("registerCommand", << c >>, RegisterCommandsFrom(Current, << c >>, 1), << >>)

ReregisterCommand ==
    \E c \in held, old \in held :
        Return("reregisterCommand", << c, old >>, reregisterCommand(Current, c, old), << >>)

UnregisterCommand ==
    \E c \in held :
        Return("unregisterCommand", << c >>, unregisterCommand(Current, c), << >>)

\* a call that leaves the registry alone and returns (or throws)
Query(op, args, error, result) ==
    /\ UNCHANGED <<held, commands, groups, cmdGroup>>
    /\ emitted' = << >>
    /\ lastCall' = Call(op, args, error, result, 0)
    /\ before' = [commands |-> commands, groups |-> groups]

ResolveGroup ==
    \E s \in SearchStrings :
        LET r == resolveGroup(groups, s)
        IN  Query("resolveGroup", << s >>,
                  IF r.ok THEN NoError ELSE "Unable to resolve group.", r.id)

FindCommands ==
    \E s \in SearchStrings, exact \in BOOLEAN :
        Query("findCommands", << s, exact >>, NoError, findCommands(commands, s, exact))

ResolveCommand ==
    \E s \in SearchStrings :
        LET r == resolveCommand(commands, s)
        IN  Query("resolveCommand", << s >>,
                  IF r.ok THEN NoError ELSE "Unable to resolve command.", r.cmd)

\* the registry's calls that change it
Next ==
    \/ RegisterGroups
    \/ RegisterCommands
    \/ ReregisterCommand
    \/ UnregisterCommand

Spec == Init /\ [][Next]_vars

\* searches of a registry built one group and one command at a time
NextSearch ==
    \/ RegisterGroup
    \/ RegisterCommand
    \/ ReregisterCommand
    \/ UnregisterCommand
    \/ ResolveGroup
    \/ FindCommands
    \/ ResolveCommand

SpecSearch == Init /\ [][NextSearch]_vars

(* ------------------------------------------------------------------ *)
(* Vocabulary of the properties                                       *)
(* ------------------------------------------------------------------ *)

\* the command object is a value of the collection
Has(col, c) == \E i \in DOMAIN col : col[i] = c

\* the name and the aliases of a command
Labels(c) == { Name(c) } \cup { Aliases(c)[j] : j \in DOMAIN Aliases(c) }

\* a name or alias of c is a name or alias of a command of the collection
Collides(col, c) == \E i \in DOMAIN col : Labels(col[i]) \cap Labels(c) # { }

\* the registered group with this id, as a set (empty when there is none)
GroupsWithId(grps, id) == { i \in DOMAIN grps : grps[i].id = id }

\* the events of one type among the emitted ones
EventsOfType(em, type) == { i \in DOMAIN em : em[i].type = type }

\* the Command instances among the first n elements of an array, in order
ValidPrefix(cmds, n) == SelectSeq(SubSeq(cmds, 1, n), LAMBDA x : x # Invalid)

SameIdentity(c, old) ==
    /\ Name(c) = Name(old)
    /\ GroupID(c) = GroupID(old)
    /\ MemberName(c) = MemberName(old)

(* ------------------------------------------------------------------ *)
(* C1                                                                 *)
(* ------------------------------------------------------------------ *)

\* C1: in every reachable state no string is a name or alias of two distinct
\* commands held in registry.commands.
C1_NameAliasUnique ==
    \A i \in DOMAIN commands : \A j \in DOMAIN commands :
        i # j => Labels(commands[i]) \cap Labels(commands[j]) = { }

(* ------------------------------------------------------------------ *)
(* C2                                                                 *)
(* ------------------------------------------------------------------ *)

\* C2: when an element of the array given to registerCommands is a command whose
\* name or one of whose aliases is the name or an alias of a command registered
\* when the call is made, the call throws at that element or before it, the
\* command is added neither to registry.commands nor to a group's commands, and
\* no commandRegister event is emitted for it.
C2_CollisionRejected ==
        lastCall.op = "registerCommands" =>
          \A i \in DOMAIN lastCall.args :
              LET c == lastCall.args[i]
              IN  (c # Invalid /\ Collides(before.commands, c)) =>
                      /\ lastCall.error # NoError
                      /\ lastCall.k \in 1..i
                      /\ Has(commands, c) => Has(before.commands, c)
                      /\ \A g \in DOMAIN groups :
                             Has(groups[g].commands, c) =>
                                 g \in DOMAIN before.groups /\ Has(before.groups[g].commands, c)
                      /\ \A e \in EventsOfType(emitted, "commandRegister") :
                             emitted[e].subject # c

\* C2 witness: a registerCommands call has thrown on an alias that is taken,
\* while the command whose alias it is stays out of the registry.
C2_Witness ==
    /\ lastCall.op = "registerCommands"
    /\ lastCall.error = "alias is already registered"
    /\ ~Has(commands, lastCall.args[lastCall.k])
    /\ Collides(commands, lastCall.args[lastCall.k])

(* ------------------------------------------------------------------ *)
(* C3                                                                 *)
(* ------------------------------------------------------------------ *)

\* an [id, name] array repeats the id or the name of a registered group
DuplicatesGroup(grps, arg) ==
    \E i \in DOMAIN grps : grps[i].id = arg[1] \/ grps[i].name = arg[2]

\* the name the array gives last to this id
LastNameFor(args, id) ==
    LET last == CHOOSE i \in DOMAIN args :
                    args[i][1] = id /\ \A j \in DOMAIN args : args[j][1] = id => j <= i
    IN  args[last][2]

\* C3 as stated: registerGroups given a group whose id or name is that of a
\* registered group throws.
C3_DuplicateGroupThrows ==
        ( /\ lastCall.op = "registerGroups"
          /\ \E i \in DOMAIN lastCall.args : DuplicatesGroup(before.groups, lastCall.args[i]) )
        => lastCall.error # NoError

\* C3 amended: registerGroups throws nothing for a duplicate. Every group
\* registered before the call stays at its place with its commands; a group whose
\* id the array names takes the last name the array gives that id; an id that was
\* not registered is added as a new group, also when its name is that of a
\* registered group.
C3_DuplicateGroupRenamed ==
        lastCall.op = "registerGroups" =>
          /\ lastCall.error = NoError
          /\ Len(groups) >= Len(before.groups)
          /\ \A i \in DOMAIN before.groups :
                 /\ groups[i].id = before.groups[i].id
                 /\ groups[i].commands = before.groups[i].commands
                 /\ groups[i].name =
                        IF \E j \in DOMAIN lastCall.args : lastCall.args[j][1] = before.groups[i].id
                        THEN LastNameFor(lastCall.args, before.groups[i].id)
                        ELSE before.groups[i].name
          /\ \A j \in DOMAIN lastCall.args :
                 Cardinality(GroupsWithId(groups, lastCall.args[j][1])) = 1
          /\ Len(groups) - Len(before.groups) =
                 Cardinality({ lastCall.args[j][1] : j \in DOMAIN lastCall.args }
                             \ { before.groups[i].id : i \in DOMAIN before.groups })

\* C3 witness: a successful registerGroups call of one array whose id was already
\* registered (no groupRegister event), made while another group has the same name.
C3_Witness ==
    /\ lastCall.op = "registerGroups"
    /\ lastCall.error = NoError
    /\ Len(lastCall.args) = 1
    /\ EventsOfType(emitted, "groupRegister") = { }
    /\ Len(groups) = 2
    /\ groups[1].name = groups[2].name

(* ------------------------------------------------------------------ *)
(* C4                                                                 *)
(* ------------------------------------------------------------------ *)

\* C4: when registerCommands throws at the k-th element, the commands among the
\* elements before k are registered, in registry.commands and in the group with
\* their group id, and the call has registered nothing else: registry.commands is
\* what it was followed by those commands, and the commandRegister events are
\* theirs, one each, in order.
C4_NoRollback ==
        (lastCall.op = "registerCommands" /\ lastCall.error # NoError) =>
          LET k == lastCall.k
              done == ValidPrefix(lastCall.args, k - 1)
              registered == EventsOfType(emitted, "commandRegister")
          IN  /\ k \in DOMAIN lastCall.args
              /\ \A i \in DOMAIN done :
                     /\ Has(commands, done[i])
                     /\ \E g \in DOMAIN groups :
                            /\ groups[g].id = GroupID(done[i])
                            /\ Has(groups[g].commands, done[i])
              /\ commands = before.commands \o done
              /\ Cardinality(registered) = Len(done)
              /\ \A i \in DOMAIN done :
                     \E e \in registered :
                         /\ emitted[e].subject = done[i]
                         /\ Cardinality({ f \in registered : f < e }) = i - 1

\* C4 witness: registerCommands has thrown at its second element, and the first
\* element is a command that the call has registered.
C4_Witness ==
    /\ lastCall.op = "registerCommands"
    /\ lastCall.error # NoError
    /\ lastCall.k = 2
    /\ lastCall.args[1] # Invalid
    /\ Has(commands, lastCall.args[1])
    /\ EventsOfType(emitted, "commandRegister") # { }

(* ------------------------------------------------------------------ *)
(* C5                                                                 *)
(* ------------------------------------------------------------------ *)

\* C5: reregisterCommand(command, oldCommand) with a command whose name, groupID
\* or memberName differs from oldCommand's throws and leaves registry.commands
\* and every group unchanged, and emits nothing.
C5_IdentityChangeRejected ==
        ( /\ lastCall.op = "reregisterCommand"
          /\ ~SameIdentity(lastCall.args[1], lastCall.args[2]) )
        => /\ lastCall.error # NoError
           /\ commands = before.commands
           /\ groups = before.groups
           /\ emitted = << >>

\* C5 witness: reregisterCommand has thrown for a command that has the name of a
\* registered oldCommand and another groupID, whose group is registered too.
C5_Witness ==
    /\ lastCall.op = "reregisterCommand"
    /\ lastCall.error = "Command group cannot change."
    /\ Has(commands, lastCall.args[2])
    /\ GroupsWithId(groups, GroupID(lastCall.args[1])) # { }

(* ------------------------------------------------------------------ *)
(* C6                                                                 *)
(* ------------------------------------------------------------------ *)

\* C6: reregisterCommand(command, oldCommand) with a registered oldCommand and a
\* command of the same name, groupID and memberName succeeds in every reachable
\* state: afterwards registry.commands and the commands of the group with that id
\* hold the new command (and so no longer the old one under that name), as many
\* commands are registered as before, and one commandReregister event is emitted.
C6_ReregisterSucceeds ==
        ( /\ lastCall.op = "reregisterCommand"
          /\ Has(before.commands, lastCall.args[2])
          /\ SameIdentity(lastCall.args[1], lastCall.args[2]) )
        => LET c == lastCall.args[1]
           IN  /\ lastCall.error = NoError
               /\ Has(commands, c)
               /\ \E g \in DOMAIN groups :
                      groups[g].id = GroupID(c) /\ Has(groups[g].commands, c)
               /\ Len(commands) = Len(before.commands)
               /\ Cardinality(EventsOfType(emitted, "commandReregister")) = 1

(* ------------------------------------------------------------------ *)
(* C7                                                                 *)
(* ------------------------------------------------------------------ *)

\* C7: resolveGroup of the id of a registered group returns that group, and
\* resolveGroup of a string whose lower case is the id or the lower-cased name of
\* no registered group throws.
C7_GroupIdResolves ==
    lastCall.op = "resolveGroup" =>
        LET s == lastCall.args[1]
        IN  /\ \A i \in DOMAIN groups :
                   groups[i].id = s =>
                       lastCall.error = NoError /\ lastCall.result = groups[i].id
            /\ (\A i \in DOMAIN groups :
                    groups[i].id # Lower(s) /\ Lower(groups[i].name) # Lower(s))
                   => lastCall.error = "Unable to resolve group."

(* ------------------------------------------------------------------ *)
(* C8                                                                 *)
(* ------------------------------------------------------------------ *)

\* C8: resolveCommand of the name or of an alias of a registered command returns
\* that command, and resolveCommand of a string whose lower case is the name, an
\* alias or the 'groupID:memberName' of no registered command throws.
C8_CommandNameResolves ==
    lastCall.op = "resolveCommand" =>
        LET s == lastCall.args[1]
        IN  /\ \A i \in DOMAIN commands :
                   s \in Labels(commands[i]) =>
                       lastCall.error = NoError /\ lastCall.result = commands[i]
            /\ (\A i \in DOMAIN commands :
                    /\ Lower(s) \notin Labels(commands[i])
                    /\ Lower(s) # QualifiedName(commands[i]))
                   => lastCall.error = "Unable to resolve command."

(* ------------------------------------------------------------------ *)
(* C9                                                                 *)
(* ------------------------------------------------------------------ *)

\* the registered commands whose name or an alias contains the string, or whose
\* 'groupID:memberName' is the string
Containing(str) ==
    { c \in { commands[i] : i \in DOMAIN commands } :
        \/ StrIncludes(Name(c), str)
        \/ \E a \in Labels(c) : a # Name(c) /\ StrIncludes(a, str)
        \/ QualifiedName(c) = str }

\* the registered commands whose name, an alias or 'groupID:memberName' is the string
Equalling(str) ==
    { c \in { commands[i] : i \in DOMAIN commands } :
        str \in Labels(c) \/ QualifiedName(c) = str }

\* the array has these elements, each once
IsListOf(arr, S) ==
    /\ { arr[i] : i \in DOMAIN arr } = S
    /\ Len(arr) = Cardinality(S)

\* C9: findCommands(s, false) of a non-empty s is one command of M whose name or
\* an alias is lower(s) when M has such a command, and all of M otherwise, M being
\* the registered commands whose name or an alias contains lower(s) or whose
\* 'groupID:memberName' is lower(s); findCommands(s, true) is all the commands
\* whose name, an alias or 'groupID:memberName' is lower(s).
C9_FindCommandsReference ==
    (lastCall.op = "findCommands" /\ lastCall.args[1] # << >>) =>
        LET ls == Lower(lastCall.args[1])
            M == Containing(ls)
            exactOnes == { c \in M : ls \in Labels(c) }
        IN  IF lastCall.args[2] THEN IsListOf(lastCall.result, Equalling(ls))
            ELSE IF exactOnes # { }
                 THEN Len(lastCall.result) = 1 /\ lastCall.result[1] \in exactOnes
                 ELSE IsListOf(lastCall.result, M)

\* C9 witness: an inexact search that several registered commands match has
\* returned the one command whose alias is the lower-cased search string.
C9_Witness ==
    /\ lastCall.op = "findCommands"
    /\ lastCall.args = << <<"B">>, FALSE >>
    /\ Cardinality(Containing(<<"b">>)) = 2
    /\ Len(lastCall.result) = 1
    /\ <<"b">> \in Labels(lastCall.result[1])

(* ------------------------------------------------------------------ *)
(* C10                                                                *)
(* ------------------------------------------------------------------ *)

\* C10: a registerCommands call that has not thrown was given only commands whose
\* groupID is the id of a registered group, and every command in registry.commands
\* has as its group a registered group whose id is the command's groupID.
C10_GroupRegisteredFirst ==
    /\ (lastCall.op = "registerCommands" /\ lastCall.error = NoError) =>
           \A i \in DOMAIN lastCall.args :
               lastCall.args[i] # Invalid =>
                   GroupsWithId(groups, GroupID(lastCall.args[i])) # { }
    /\ \A i \in DOMAIN commands :
           /\ cmdGroup[commands[i]] = GroupID(commands[i])
           /\ GroupsWithId(groups, cmdGroup[commands[i]]) # { }

(* ------------------------------------------------------------------ *)
(* C11                                                                *)
(* ------------------------------------------------------------------ *)

\* C11: a command object is in registry.commands exactly when it is in the
\* commands of its group (command.group), whatever calls were made, the calls
\* that threw included. Both collections are keyed by the command's name.
C11_MappingsConsistent ==
    \A c \in held :
        Has(commands, c) <=>
            \E g \in DOMAIN groups :
                groups[g].id = cmdGroup[c] /\ Has(groups[g].commands, c)

(* ------------------------------------------------------------------ *)
(* C12                                                                *)
(* ------------------------------------------------------------------ *)

\* the commands of the registered group with this id (none when there is no such group)
CommandsOfGroup(grps, id) ==
    IF GroupIndex(grps, id) = 0 THEN << >> ELSE grps[GroupIndex(grps, id)].commands

\* a command of the collection has the memberName of c
SharesMemberName(col, c) == \E i \in DOMAIN col : MemberName(col[i]) = MemberName(c)

\* registerCommands, given a command whose memberName is that of a command in the
\* group with its groupID when the call is made, throws at that element or before
\* it and does not add the command
MemberNameRejected ==
    lastCall.op = "registerCommands" =>
        \A i \in DOMAIN lastCall.args :
            LET c == lastCall.args[i]
            IN  ( /\ c # Invalid
                  /\ SharesMemberName(CommandsOfGroup(before.groups, GroupID(c)), c) )
                => /\ lastCall.error # NoError
                   /\ lastCall.k \in 1..i
                   /\ Has(commands, c) => Has(before.commands, c)
                   /\ \A g \in DOMAIN groups :
                          Has(groups[g].commands, c) => Has(before.groups[g].commands, c)

\* no two distinct commands of one group have the same memberName
MemberNamesDistinct ==
    \A g \in DOMAIN groups :
        \A i \in DOMAIN groups[g].commands : \A j \in DOMAIN groups[g].commands :
            MemberName(groups[g].commands[i]) = MemberName(groups[g].commands[j]) => i = j

\* C12: member names are unique per group: registerCommands throws for, and does
\* not add, a command whose memberName is that of a command already in the same
\* group, and in every reachable state no two distinct commands of one group
\* share a memberName.
C12_MemberNameUnique ==
    /\ MemberNameRejected
    /\ MemberNamesDistinct

(* ------------------------------------------------------------------ *)
(* C13                                                                *)
(* ------------------------------------------------------------------ *)

\* the ids an array of [id, name] gives
IdsOf(args) == { args[j][1] : j \in DOMAIN args }

\* the ids of the groups of a collection
RegisteredIds(grps) == { grps[i].id : i \in DOMAIN grps }

\* the groupRegister events emitted for this id
GroupRegisterEvents(em, id) ==
    { e \in EventsOfType(em, "groupRegister") : em[e].subject = id }

\* C13: registering a registered group id is a rename. After registerGroups, a
\* group that was registered is at its place with the same commands; when the
\* array names its id it has the last name the array gives that id and no
\* groupRegister event was emitted for it, otherwise it is unchanged. The number
\* of groups grows by the number of ids that were not registered, and each of
\* those gets exactly one groupRegister event. No other call emits groupRegister
\* or removes a group, so that the event is emitted once per id, when it is added.
C13_ReregisteredGroupRenamed ==
    /\ lastCall.op = "registerGroups" =>
           LET given == IdsOf(lastCall.args)
               old == RegisteredIds(before.groups)
           IN  /\ \A i \in DOMAIN before.groups :
                      IF before.groups[i].id \in given
                      THEN /\ groups[i] = [before.groups[i] EXCEPT
                                              !.name = LastNameFor(lastCall.args,
                                                                   before.groups[i].id)]
                           /\ GroupRegisterEvents(emitted, before.groups[i].id) = { }
                      ELSE groups[i] = before.groups[i]
               /\ Len(groups) = Len(before.groups) + Cardinality(given \ old)
               /\ \A id \in given \ old :
                      /\ Cardinality(GroupsWithId(groups, id)) = 1
                      /\ Cardinality(GroupRegisterEvents(emitted, id)) = 1
    /\ lastCall.op # "registerGroups" =>
           /\ EventsOfType(emitted, "groupRegister") = { }
           /\ Len(groups) = Len(before.groups)
           /\ \A i \in DOMAIN before.groups : groups[i].id = before.groups[i].id

\* C13 witness: registerGroups has been given the id of a registered group that
\* has a command, with another name: the group is renamed and keeps the command,
\* as many groups are registered as before and no groupRegister event is emitted.
C13_Witness ==
    /\ lastCall.op = "registerGroups"
    /\ Len(lastCall.args) = 1
    /\ Len(groups) = Len(before.groups)
    /\ EventsOfType(emitted, "groupRegister") = { }
    /\ \E i \in DOMAIN before.groups :
           /\ before.groups[i].id = lastCall.args[1][1]
           /\ before.groups[i].name # lastCall.args[1][2]
           /\ before.groups[i].commands # << >>
           /\ groups[i].name = lastCall.args[1][2]
           /\ groups[i].commands = before.groups[i].commands

(* ------------------------------------------------------------------ *)
(* C14                                                                *)
(* ------------------------------------------------------------------ *)

\* the warn and commandRegister events among the emitted ones, in order
ElementEvents(em) ==
    SelectSeq(em, LAMBDA e : e.type \in {"warn", "commandRegister"})

\* C14: an element of the array of registerCommands that is no Command gets a
\* warn event and no exception, changes nothing in the registry, and the elements
\* after it are processed in order. With n the number of elements the call went
\* through without throwing: the call throws, if at all, at a Command; the warn
\* and commandRegister events are one per element up to n, in the order of the
\* array, warn for the invalid elements and commandRegister for the commands; and
\* registry.commands is what it was followed by the commands among those n
\* elements, each of them is in the group with its groupID, no group holds any
\* other new command, and a call that went through invalid elements only leaves
\* every group as it was.
C14_InvalidElementSkipped ==
    lastCall.op = "registerCommands" =>
        LET args == lastCall.args
            n == IF lastCall.error = NoError THEN Len(args) ELSE lastCall.k - 1
            events == ElementEvents(emitted)
            done == ValidPrefix(args, n)
        IN  /\ lastCall.error # NoError =>
                   lastCall.k \in DOMAIN args /\ args[lastCall.k] # Invalid
            /\ Len(events) = n
            /\ \A i \in 1..n :
                   events[i] = IF args[i] = Invalid THEN Event("warn", Invalid)
                               ELSE Event("commandRegister", args[i])
            /\ commands = before.commands \o done
            /\ done = << >> => groups = before.groups
            /\ \A i \in DOMAIN done :
                   Has(CommandsOfGroup(groups, GroupID(done[i])), done[i])
            /\ \A g \in DOMAIN groups : \A j \in DOMAIN groups[g].commands :
                   LET c == groups[g].commands[j]
                   IN  \/ Has(before.groups[g].commands, c)
                       \/ Has(done, c) /\ groups[g].id = GroupID(c)

\* C14 witness: registerCommands has been given an invalid element followed by a
\* command: a warn event was emitted first, nothing was thrown, and the command
\* after the invalid element is registered by the call.
C14_Witness ==
    /\ lastCall.op = "registerCommands"
    /\ lastCall.error = NoError
    /\ Len(lastCall.args) = 2
    /\ lastCall.args[1] = Invalid
    /\ lastCall.args[2] # Invalid
    /\ emitted[1].type = "warn"
    /\ Has(commands, lastCall.args[2])
    /\ ~Has(before.commands, lastCall.args[2])

====
